---- MODULE Spec2Model ----
(***************************************************************************)
(* Model of the CONABIO/ollin calibration harness (the four calibrators    *)
(* of ollin/calibration and pycamtrap/calibration) and of the two movement *)
(* kernels (pycamtrap/core/movement.py, movement_models/constant_brownian).*)
(*                                                                         *)
(* Conventions.  Python index tuples are 0-based and are kept 0-based      *)
(* here; positions in a Python list are modelled as positions 1..Len of a  *)
(* TLA+ sequence, so list element p (0-based) is sequence element p+1.     *)
(* Real-valued coordinates are modelled on an integer lattice; Python's    *)
(* % with a positive divisor and TLA+'s % are both the floor modulus.      *)
(***************************************************************************)
EXTENDS Integers, Sequences, FiniteSets, TLC

VARIABLES
    calibrator,       \* which calibrator class is being constructed
    config,           \* the arguments the caller passed to __init__
    self,             \* the fields __init__ assigned on the instance
    pc,               \* position of the orchestrating process
    pool,             \* multiprocessing.Pool: "none", "open", "joined", "terminated"
    all_info,         \* the result array of calculate_*: [shape, data]
    arguments,        \* the task list handed to pool.map
    task_state,       \* per submitted task: "pending", "done", "failed"
    results,          \* the pool's result slots, by submission position
    index_arguments,  \* the second `arguments` list (index tuples)
    cursor,           \* position of the write-back loop in zip(arguments, results)
    writes,           \* ghost: number of assignments made to each cell
    completed,        \* ghost: submission positions of the tasks, in finishing order
    raised,           \* exception leaving calculate_*: "none" or its type
    info              \* self.occupancy_info / oc_info / hr_info / velocity_info

hvars == <<calibrator, config, self, pc, pool, all_info, arguments, task_state,
           results, index_arguments, cursor, writes, completed, raised, info>>

VARIABLES
    kernel,            \* "heatmap" (core/movement.py) or "brownian" (constant_brownian.py)
    habitat,           \* initial_data: range, resolution, heatmap, velocity, num
    random_positions,  \* the array initial_data.initial_points, updated in place
    points_at_call,    \* ghost: the contents of that array when the simulation was called
    movement,          \* the trajectory array [num, steps, 2] being filled
    steps,             \* days * steps_per_day
    velocity,          \* the kernel's local velocity (per step)
    sigma,             \* constant_brownian: the kernel's local sigma (0 in core/movement.py)
    k,                 \* index of the outer loop (time step)
    j,                 \* index of the inner loop (individual)
    mpc                \* position of the simulation

mvars == <<kernel, habitat, random_positions, points_at_call, movement, steps,
           velocity, sigma, k, j, mpc>>

VARIABLES
    proposed,          \* a proposed raw position (tmp1) and the habitat range
    mapped             \* the position the boundary mapping returns for it

bvars == <<proposed, mapped>>

VARIABLES
    data,              \* fit: self.occupancy_info [shape, data], occupancies in 1 / OccDen
    X,                 \* fit: the covariate rows handed to the regression
    Y,                 \* fit: the regression target handed to the regression
    parameters,        \* the density bundle passed to the conversions of core/utils.py
    conversions        \* per conversion function: whether it was called and what it raised

fvars == <<data, X, Y, parameters, conversions>>

vars == <<hvars, mvars, bvars, fvars>>

----
\* Bounds of the model.
MaxAxisLen == 2
MaxWorlds == 2
MaxTrials == 2
MaxTasks == 4

\* pycamtrap/calibration/home_range.py: the module constants NUM_WORLDS and
\* TRIALS_PER_WORLD.  Scaled down: the code's values are 10 and 1000; what the
\* model keeps is that they are fixed numbers of the module, whatever the
\* caller passes.
NUM_WORLDS == 2
TRIALS_PER_WORLD == 2

Calibrators == {"ollin_occupancy", "pc_occupancy", "home_range", "velocity"}

OccupancyCalibrators == {"ollin_occupancy", "pc_occupancy"}

NoArray == [shape |-> <<>>, data |-> <<>>]

\* One cell of np.zeros(...): no task has written it.
Zero == [by |-> 0, arg |-> <<>>, local |-> <<>>, val |-> 0]

RECURSIVE SumSeq(_)
SumSeq(s) == IF s = <<>> THEN 0 ELSE Head(s) + SumSeq(Tail(s))

\* range(n) / a swept axis whose values are its own indices.
AxisOfLen(n) == [i \in 1..n |-> i - 1]

\* A nested comprehension `for i in range(l1) for j in range(l2) ...`:
\* the sequence of index tuples, first loop outermost.
RECURSIVE Enumerate(_)
Enumerate(lens) ==
    IF lens = <<>> THEN << <<>> >>
    ELSE LET rest == Enumerate(Tail(lens))
             n == Len(rest)
         IN [q \in 1..(lens[1] * n) |->
                << (q - 1) \div n >> \o rest[((q - 1) % n) + 1]]

SeqRange(s) == {s[q] : q \in 1..Len(s)}

----
\* __init__: the fields each calibrator stores from the caller's arguments.

\* ollin OccupancyCalibrator.__init__: BASE_CONFIG updated by the caller's config.
Fields_ollin_occupancy(cfg) ==
    [axis1 |-> cfg.axis1, axis2 |-> cfg.axis2, nums |-> cfg.nums,
     trials_per_world |-> cfg.trials_per_world,
     num_worlds |-> cfg.num_worlds, range |-> cfg.range]

\* pycamtrap OccupancyCalibrator.__init__
Fields_pc_occupancy(cfg) ==
    [axis1 |-> cfg.axis1, axis2 |-> cfg.axis2, nums |-> cfg.nums,
     trials_per_world |-> cfg.trials_per_world,
     num_worlds |-> cfg.num_worlds, range |-> cfg.range]

\* VelocityCalibrator.__init__
Fields_velocity(cfg) ==
    [axis1 |-> cfg.axis1, axis2 |-> cfg.axis2, nums |-> cfg.nums,
     trials_per_world |-> cfg.trials_per_world,
     num_worlds |-> cfg.num_worlds, range |-> cfg.range]

\* HomeRangeCalibrator.__init__: trials_per_world and num_worlds are assigned
\* from the module constants, not from the parameters.
Fields_home_range(cfg) ==
    [axis1 |-> cfg.axis1, axis2 |-> cfg.axis2, nums |-> cfg.nums,
     trials_per_world |-> TRIALS_PER_WORLD,
     num_worlds |-> NUM_WORLDS, range |-> cfg.range]

Fields(cal, cfg) ==
    CASE cal = "ollin_occupancy" -> Fields_ollin_occupancy(cfg)
      [] cal = "pc_occupancy" -> Fields_pc_occupancy(cfg)
      [] cal = "home_range" -> Fields_home_range(cfg)
      [] cal = "velocity" -> Fields_velocity(cfg)

----
\* calculate_*: the shape of np.zeros([...]).

\* [num_home_ranges, num_niches, num_densities, num_worlds, trials_per_world]
Shape_occupancy(s) ==
    <<Len(s.axis1), Len(s.axis2), Len(s.nums), s.num_worlds, s.trials_per_world>>

\* [n_vel, n_nsz, self.num_worlds, self.trials_per_world]
Shape_velocity(s) ==
    <<Len(s.axis1), Len(s.axis2), s.num_worlds, s.trials_per_world>>

Shape(cal, s) ==
    IF cal \in OccupancyCalibrators THEN Shape_occupancy(s) ELSE Shape_velocity(s)

\* The index tuples of an array of the given shape.
Cells(shape) == SeqRange(Enumerate(shape))

\* np.zeros(shape)
Zeros(shape) == [shape |-> shape, data |-> [c \in Cells(shape) |-> Zero]]

----
\* The task list: one element per iteration of the first comprehension.  `arg`
\* is what the worker receives; `loop` is ghost bookkeeping of the iteration
\* (positions in each axis and the world index k) that built the element.

\* (home_range, niche_size) for home_range for niche_size for k in range(num_worlds)
Arguments_ollin_occupancy(s) ==
    LET loops == Enumerate(<<Len(s.axis1), Len(s.axis2), s.num_worlds>>)
    IN [p \in 1..Len(loops) |->
           [arg |-> <<s.axis1[loops[p][1] + 1], s.axis2[loops[p][2] + 1]>>,
            trials |-> s.trials_per_world, range |-> s.range,
            loop |-> loops[p]]]

\* Info(mov, hr, nsz, num, tpw, range) for hr for nsz for num for k
Arguments_pc_occupancy(s) ==
    LET loops == Enumerate(<<Len(s.axis1), Len(s.axis2), Len(s.nums), s.num_worlds>>)
    IN [p \in 1..Len(loops) |->
           [arg |-> <<s.axis1[loops[p][1] + 1], s.axis2[loops[p][2] + 1],
                      s.nums[loops[p][3] + 1]>>,
            trials |-> s.trials_per_world, range |-> s.range,
            loop |-> loops[p]]]

\* A task list without the world loop: one task per (velocity, niche size).
Arguments_velocity_no_worlds(s) ==
    LET loops == Enumerate(<<Len(s.axis1), Len(s.axis2)>>)
    IN [p \in 1..Len(loops) |->
           [arg |-> <<s.axis1[loops[p][1] + 1], s.axis2[loops[p][2] + 1]>>,
            trials |-> s.trials_per_world, range |-> s.range,
            loop |-> loops[p]]]

\* A task list whose argument carries the world index k (a per-world seed).
Arguments_velocity_per_world(s) ==
    LET loops == Enumerate(<<Len(s.axis1), Len(s.axis2), s.num_worlds>>)
    IN [p \in 1..Len(loops) |->
           [arg |-> <<s.axis1[loops[p][1] + 1], s.axis2[loops[p][2] + 1], loops[p][3]>>,
            trials |-> s.trials_per_world, range |-> s.range,
            loop |-> loops[p]]]

\* Info(mov, vel, nsz, num, range) for vel for nsz for k, num = trials_per_world
Arguments_velocity(s) ==
    LET loops == Enumerate(<<Len(s.axis1), Len(s.axis2), s.num_worlds>>)
    IN [p \in 1..Len(loops) |->
           [arg |-> <<s.axis1[loops[p][1] + 1], s.axis2[loops[p][2] + 1]>>,
            trials |-> s.trials_per_world, range |-> s.range,
            loop |-> loops[p]]]

Arguments(cal, s) ==
    CASE cal = "ollin_occupancy" -> Arguments_ollin_occupancy(s)
      [] cal = "pc_occupancy" -> Arguments_pc_occupancy(s)
      [] OTHER -> Arguments_velocity(s)

----
\* The second comprehension: the index tuples zipped with the results.

\* An index list enumerated with the world loop outermost.
IndexArguments_worlds_first(s) ==
    LET loops == Enumerate(<<s.num_worlds, Len(s.axis1), Len(s.axis2)>>)
    IN [p \in 1..Len(loops) |-> <<loops[p][2], loops[p][3], loops[p][1]>>]

\* (i, j, k) for i in xrange(n_hr) for j in xrange(n_nsz) for k in xrange(num_worlds)
IndexArguments_three(s) ==
    Enumerate(<<Len(s.axis1), Len(s.axis2), s.num_worlds>>)

\* (i, j, l, k) for i for j for l in xrange(n_num) for k in xrange(num_worlds)
IndexArguments_four(s) ==
    Enumerate(<<Len(s.axis1), Len(s.axis2), Len(s.nums), s.num_worlds>>)

IndexArguments(cal, s) ==
    IF cal = "pc_occupancy" THEN IndexArguments_four(s) ELSE IndexArguments_three(s)

----
\* The worker function: what a task returns for the argument it receives.
\* Every element carries the argument received and, as ghost, the submission
\* position `by` of the computing task; `val` is the stub metric (the sum of
\* the argument's values).

\* _get_single_oc_info: results = np.zeros([n_nums, trials]); for n, num in
\* enumerate(nums): ... results[n, k] = ...; `num` is the number of individuals
\* the element was simulated with.
Worker_ollin_occupancy(task, p, s) ==
    [local \in SeqRange(Enumerate(<<Len(s.nums), task.trials>>)) |->
        [by |-> p, arg |-> task.arg, local |-> local,
         num |-> s.nums[local[1] + 1], val |-> SumSeq(task.arg)]]

\* get_single_oc_info / get_single_hr_info / get_single_velocity_info:
\* one value per trial (occupancies, home_ranges, velocities.mean(axis=1)).
Worker_trials(task, p, s) ==
    [local \in SeqRange(Enumerate(<<task.trials>>)) |->
        [by |-> p, arg |-> task.arg, local |-> local, val |-> SumSeq(task.arg)]]

Worker(cal, task, p, s) ==
    IF cal = "ollin_occupancy" THEN Worker_ollin_occupancy(task, p, s)
    ELSE Worker_trials(task, p, s)

----
\* The slice assignment of the write-back loop: the cell that receives
\* element `local` of the result zipped with index tuple idx.

\* A slice assignment of the transposed result: all_info[i, j, :, k, :] = res.T
CellOf_ollin_occupancy_transposed(idx, local) ==
    <<idx[1], idx[2], local[2], idx[3], local[1]>>

\* all_info[i, j, :, k, :] = res
CellOf_ollin_occupancy(idx, local) ==
    <<idx[1], idx[2], local[1], idx[3], local[2]>>

\* A slice assignment that drops the world index: all_info[i, j, 0, :] = res
CellOf_trials_world0(idx, local) == <<idx[1], idx[2], 0>> \o local

\* all_info[i, j, l, k, :] = res     and     all_info[i, j, k, :] = res
CellOf_trials(idx, local) == idx \o local

CellOf(cal, idx, local) ==
    IF cal = "ollin_occupancy" THEN CellOf_ollin_occupancy(idx, local)
    ELSE CellOf_trials(idx, local)

\* The cells one slice assignment writes.
Slice(cal, idx, res) == {CellOf(cal, idx, local) : local \in DOMAIN res}

\* arr[slice] = res
Assign(cal, arr, idx, res) ==
    [arr EXCEPT !.data =
        [c \in DOMAIN arr.data |->
            IF c \in Slice(cal, idx, res)
            THEN res[CHOOSE local \in DOMAIN res : CellOf(cal, idx, local) = c]
            ELSE arr.data[c]]]

----
\* State of the harness.

\* pycamtrap/calibration: RANGE, the default habitat range.
RANGE == 20

\* Habitat ranges a caller may configure (0 is a malformed, non-positive one).
Ranges == {0, RANGE}

NoResult == <<>>

TasksOf(cal, cfg) == Len(Arguments(cal, Fields(cal, cfg)))

Configs(cal) ==
    {cfg \in [axis1 : {AxisOfLen(n) : n \in 0..MaxAxisLen},
              axis2 : {AxisOfLen(n) : n \in 0..MaxAxisLen},
              nums : IF cal \in OccupancyCalibrators
                     THEN {AxisOfLen(n) : n \in 0..MaxAxisLen}
                     ELSE {<<>>},
              num_worlds : 0..MaxWorlds,
              trials_per_world : 1..MaxTrials,
              range : Ranges] :
        TasksOf(cal, cfg) <= MaxTasks}

NoFields ==
    [axis1 |-> <<>>, axis2 |-> <<>>, nums |-> <<>>, trials_per_world |-> 0,
     num_worlds |-> 0, range |-> 0]

HarnessInit ==
    /\ calibrator \in Calibrators
    /\ config \in Configs(calibrator)
    /\ self = NoFields
    /\ pc = "init"
    /\ pool = "none"
    /\ all_info = NoArray
    /\ arguments = <<>>
    /\ task_state = <<>>
    /\ results = <<>>
    /\ index_arguments = <<>>
    /\ cursor = 0
    /\ writes = <<>>
    /\ completed = <<>>
    /\ raised = "none"
    /\ info = NoArray

\* __init__ up to the call of calculate_*.
Construct ==
    /\ pc = "init"
    /\ self' = Fields(calibrator, config)
    /\ pc' = "constructed"
    /\ UNCHANGED <<calibrator, config, pool, all_info, arguments, task_state,
                   results, index_arguments, cursor, writes, completed, raised, info>>

\* calculate_*: allocate all_info, build the task list, create the pool and
\* hand it the tasks; the orchestrator then blocks in pool.map / .get().
Submit ==
    /\ pc = "constructed"
    /\ all_info' = Zeros(Shape(calibrator, self))
    /\ writes' = [c \in Cells(Shape(calibrator, self)) |-> 0]
    /\ arguments' = Arguments(calibrator, self)
    /\ task_state' = [p \in 1..Len(Arguments(calibrator, self)) |-> "pending"]
    /\ results' = [p \in 1..Len(Arguments(calibrator, self)) |-> NoResult]
    /\ pool' = "open"
    /\ pc' = "waiting"
    /\ UNCHANGED <<calibrator, config, self, index_arguments, cursor, completed, raised, info>>

\* A pool worker runs task p to completion; the pool stores the return value
\* in the slot of the task's submission position (map's ordered collection).
RunTask(p) ==
    /\ pool = "open"
    /\ task_state[p] = "pending"
    /\ task_state' = [task_state EXCEPT ![p] = "done"]
    /\ results' = [results EXCEPT ![p] = Worker(calibrator, arguments[p], p, self)]
    /\ completed' = Append(completed, p)
    /\ UNCHANGED <<calibrator, config, self, pc, pool, all_info, arguments,
                   index_arguments, cursor, writes, raised, info>>

\* The worker function raises inside task p.
FailTask(p) ==
    /\ pool = "open"
    /\ task_state[p] = "pending"
    /\ task_state' = [task_state EXCEPT ![p] = "failed"]
    /\ completed' = Append(completed, p)
    /\ UNCHANGED <<calibrator, config, self, pc, pool, all_info, arguments,
                   results, index_arguments, cursor, writes, raised, info>>

\* A harness that starts the write-back as soon as one task has finished,
\* without waiting for the others.
Collect_early ==
    /\ pc = "waiting"
    /\ \E p \in DOMAIN task_state : task_state[p] = "done"
    /\ \A p \in DOMAIN task_state : task_state[p] # "failed"
    /\ pool' = "joined"
    /\ index_arguments' = IndexArguments(calibrator, self)
    /\ cursor' = 1
    /\ pc' = "writing"
    /\ UNCHANGED <<calibrator, config, self, all_info, arguments, task_state,
                   results, writes, completed, raised, info>>

\* pool.map returns the ordered result list; pool.close(); pool.join(); the
\* index tuples are enumerated for the write-back loop.
Collect ==
    /\ pc = "waiting"
    /\ \A p \in DOMAIN task_state : task_state[p] = "done"
    /\ pool' = "joined"
    /\ index_arguments' = IndexArguments(calibrator, self)
    /\ cursor' = 1
    /\ pc' = "writing"
    /\ UNCHANGED <<calibrator, config, self, all_info, arguments, task_state,
                   results, writes, completed, raised, info>>

\* A harness that swallows the task's exception and goes on to write back
\* whatever results it has.
WorkerError_swallowed ==
    /\ pc = "waiting"
    /\ \E p \in DOMAIN task_state : task_state[p] = "failed"
    /\ \A p \in DOMAIN task_state : task_state[p] # "pending"
    /\ pool' = "joined"
    /\ index_arguments' = IndexArguments(calibrator, self)
    /\ cursor' = 1
    /\ pc' = "writing"
    /\ UNCHANGED <<calibrator, config, self, all_info, arguments, task_state,
                   results, writes, completed, raised, info>>

\* pool.map re-raises a task's exception in the orchestrator; it is not a
\* KeyboardInterrupt, so no handler runs and it leaves calculate_* and __init__.
WorkerError ==
    /\ pc = "waiting"
    /\ \E p \in DOMAIN task_state : task_state[p] = "failed"
    /\ raised' = "WorkerError"
    /\ pc' = "raised"
    /\ UNCHANGED <<calibrator, config, self, pool, all_info, arguments, task_state,
                   results, index_arguments, cursor, writes, completed, info>>

\* KeyboardInterrupt is raised in the orchestrator while it waits in the try block.
KeyboardInterrupt ==
    /\ pc = "waiting"
    /\ pc' = "except"
    /\ UNCHANGED <<calibrator, config, self, pool, all_info, arguments, task_state,
                   results, index_arguments, cursor, writes, completed, raised, info>>

\* What the except clause raises after pool.terminate().
\* ollin: raise KeyboardInterrupt
Reraise_ollin_occupancy == "KeyboardInterrupt"

\* pycamtrap: sys.exit() raises SystemExit; quit() after it is unreachable.
Reraise_pycamtrap == "SystemExit"

\* A handler that drains the pool (close and join) before it raises: it can
\* run only once no task is in flight.
HandleInterrupt_drain ==
    /\ pc = "except"
    /\ \A p \in DOMAIN task_state : task_state[p] # "pending"
    /\ pool' = "joined"
    /\ raised' = IF calibrator = "ollin_occupancy"
                 THEN Reraise_ollin_occupancy ELSE Reraise_pycamtrap
    /\ pc' = "raised"
    /\ UNCHANGED <<calibrator, config, self, all_info, arguments, task_state,
                   results, index_arguments, cursor, writes, completed, info>>

\* except KeyboardInterrupt: pool.terminate(); then raise.
HandleInterrupt ==
    /\ pc = "except"
    /\ pool' = "terminated"
    /\ raised' = IF calibrator = "ollin_occupancy"
                 THEN Reraise_ollin_occupancy ELSE Reraise_pycamtrap
    /\ pc' = "raised"
    /\ UNCHANGED <<calibrator, config, self, all_info, arguments, task_state,
                   results, index_arguments, cursor, writes, completed, info>>

\* zip(arguments, results) stops at the shorter list.
ZipLen == IF Len(index_arguments) <= Len(results)
          THEN Len(index_arguments) ELSE Len(results)

\* One iteration of `for idx, res in zip(arguments, results): all_info[...] = res`.
WriteBack ==
    /\ pc = "writing"
    /\ cursor <= ZipLen
    /\ all_info' = Assign(calibrator, all_info, index_arguments[cursor], results[cursor])
    /\ writes' = [c \in DOMAIN writes |->
                     IF c \in Slice(calibrator, index_arguments[cursor], results[cursor])
                     THEN writes[c] + 1 ELSE writes[c]]
    /\ cursor' = cursor + 1
    /\ UNCHANGED <<calibrator, config, self, pc, pool, arguments, task_state,
                   results, index_arguments, completed, raised, info>>

\* return all_info; __init__ stores it on the instance.
Return ==
    /\ pc = "writing"
    /\ cursor > ZipLen
    /\ info' = all_info
    /\ pc' = "done"
    /\ UNCHANGED <<calibrator, config, self, pool, all_info, arguments, task_state,
                   results, index_arguments, cursor, writes, completed, raised>>

HarnessNext ==
    \/ Construct
    \/ Submit
    \/ \E p \in DOMAIN task_state : RunTask(p)
    \/ \E p \in DOMAIN task_state : FailTask(p)
    \/ Collect
    \/ WorkerError
    \/ KeyboardInterrupt
    \/ HandleInterrupt
    \/ WriteBack
    \/ Return

----
\* The boundary mapping and the movement kernels.  Coordinates, ranges and
\* displacements are integers (lattice units).

\* The mapping written as a mirror image about the upper edge, without the
\* final modulus: 2 * range - tmp2.
BoundaryMap_mirror(x, range_) ==
    LET tmp2 == x % (2 * range_)
    IN IF tmp2 < range_ THEN tmp2 % range_ ELSE 2 * range_ - tmp2

\* A periodic (torus) boundary: the coordinate re-enters at the opposite edge.
BoundaryMap_wrap(x, range_) == x % range_

\* tmp2 = tmp1 % (2 * range_); tmp2 % range_ if tmp2 < range_ else (-tmp2) % range_
BoundaryMap(x, range_) ==
    LET tmp2 == x % (2 * range_)
    IN IF tmp2 < range_ THEN tmp2 % range_ ELSE (-tmp2) % range_

\* Both axes, each with its own range.
BoundaryMap2(pos, range2) ==
    <<BoundaryMap(pos[1], range2[1]), BoundaryMap(pos[2], range2[2])>>

\* Bounds of the movement model.
MaxRange == 2
MaxTail == 6
MaxZ == 2
MaxCoord == 12
MaxMapRange == 3

\* Numbers of individuals simulated.
Nums == {1, 2}

\* (days, steps_per_day) of a simulation: one or two steps in all.
Schedules ==
    {[days |-> 1, steps_per_day |-> 1],
     [days |-> 1, steps_per_day |-> 2],
     [days |-> 2, steps_per_day |-> 1]}

\* Daily velocities a habitat may be parameterized with.
Velocities == {0, 4}

\* Suitability fields, normalized to their maximum (heatmap / heatmap.max()):
\* 1 everywhere, or 1 in grid cell (0, 0) and 0 elsewhere.
HabitatFields == {"uniform", "peak"}

Heatmap(field, ix, iy) ==
    IF field = "uniform" \/ (ix = 0 /\ iy = 0) THEN 1 ELSE 0

\* Positions inside a habitat of the given range.
Inside(range2) == (0..(range2[1] - 1)) \X (0..(range2[2] - 1))

InRange(pos, range2) ==
    /\ 0 <= pos[1] /\ pos[1] < range2[1]
    /\ 0 <= pos[2] /\ pos[2] < range2[2]

\* (cos(angle), sin(angle)) for the angles that stay on the lattice.
Headings == {<<1, 0>>, <<0, 1>>, <<-1, 0>>, <<0, -1>>}

\* The trajectory allocated with its first two axes exchanged: np.zeros((steps, num, 2)).
ZeroMovement_transposed(num, n_steps) ==
    [jk \in (0..(n_steps - 1)) \X (0..(num - 1)) |-> <<0, 0>>]

\* np.zeros((num, steps, 2)): indexed by (individual, step).
ZeroMovement(num, n_steps) ==
    [jk \in (0..(num - 1)) \X (0..(n_steps - 1)) |-> <<0, 0>>]

\* A per-step velocity that is not rescaled to zero: velocity / steps_per_day + 1.
StepVelocity_drift(v, steps_per_day) == v \div steps_per_day + 1

\* velocity = velocity / float(steps_per_day)
StepVelocity(v, steps_per_day) == v \div steps_per_day

\* exponent = 1.1 + 0.9 * value, in tenths.
Exponent10(value) == 11 + 9 * value

\* magnitude = velocity * (exponent - 1) / ((1 - u) ** (1 / exponent) * exponent),
\* with tail = 1 / (1 - u) ** (1 / exponent) >= 1 for u in [0, 1).
Magnitude(v, value, tail) ==
    (v * (Exponent10(value) - 10) * tail) \div Exponent10(value)

\* 1.2533141373155003 as SIGMA_NUM / SIGMA_DEN
SIGMA_NUM == 12533
SIGMA_DEN == 10000

\* A sigma that multiplies by the factor: velocity * 1.2533141373155003
Sigma_times(v) == (v * SIGMA_NUM) \div SIGMA_DEN

\* sigma = velocity / 1.2533141373155003
Sigma(v) == (v * SIGMA_DEN) \div SIGMA_NUM

MovementParams ==
    {[range |-> r, resolution |-> res, field |-> f, velocity |-> v, num |-> n,
      days |-> sch.days, steps_per_day |-> sch.steps_per_day] :
        r \in (1..MaxRange) \X (1..MaxRange), res \in {1, 2}, f \in HabitatFields,
        v \in Velocities, n \in Nums, sch \in Schedules}

MovementInit ==
    /\ kernel \in {"heatmap", "brownian"}
    /\ habitat \in MovementParams
    \* core/movement.py takes one scalar range_ and reads the heatmap; the
    \* constant-brownian kernel ignores the heatmap and its resolution.
    /\ kernel = "heatmap" => habitat.range[1] = habitat.range[2]
    /\ kernel = "brownian" => (habitat.field = "uniform" /\ habitat.resolution = 1)
    /\ random_positions \in [0..(habitat.num - 1) -> Inside(habitat.range)]
    /\ points_at_call = <<>>
    /\ movement = <<>>
    /\ steps = 0
    /\ velocity = 0
    /\ sigma = 0
    /\ k = 0
    /\ j = 0
    /\ mpc = "idle"

\* MovementData.make_data / Model.generate_movement, then the head of
\* _movement: steps, the zero trajectory, the per-step velocity and, in the
\* constant-brownian kernel, sigma.
CallMovement ==
    /\ mpc = "idle"
    /\ points_at_call' = random_positions
    /\ steps' = habitat.days * habitat.steps_per_day
    /\ movement' = ZeroMovement(habitat.num, habitat.days * habitat.steps_per_day)
    /\ velocity' = StepVelocity(habitat.velocity, habitat.steps_per_day)
    /\ sigma' = IF kernel = "brownian"
                THEN Sigma(StepVelocity(habitat.velocity, habitat.steps_per_day))
                ELSE 0
    /\ k' = 0
    /\ j' = 0
    /\ mpc' = "record"
    /\ UNCHANGED <<kernel, habitat, random_positions>>

\* for k in xrange(steps): movement[:, k, :] = random_positions
RecordPositions ==
    /\ mpc = "record"
    /\ k < steps
    /\ movement' = [jk \in DOMAIN movement |->
                       IF jk[2] = k THEN random_positions[jk[1]] ELSE movement[jk]]
    /\ j' = 0
    /\ mpc' = "move"
    /\ UNCHANGED <<kernel, habitat, random_positions, points_at_call, steps,
                   velocity, sigma, k>>

\* After the body of `for j in xrange(num)`: next individual or next step.
Advance ==
    /\ j' = j + 1
    /\ mpc' = "move"
    /\ UNCHANGED <<k>>

\* core/movement.py: one iteration of the inner loop for individual j.
MoveIndividual_heatmap ==
    /\ kernel = "heatmap"
    /\ mpc = "move"
    /\ j < habitat.num
    /\ \E heading \in Headings, tail \in 1..MaxTail :
         LET pos == random_positions[j]
             index == <<pos[1] \div habitat.resolution, pos[2] \div habitat.resolution>>
             value == Heatmap(habitat.field, index[1], index[2])
             magnitude == Magnitude(velocity, value, tail)
             direction == <<magnitude * heading[1], magnitude * heading[2]>>
             tmp1 == <<pos[1] + direction[1], pos[2] + direction[2]>>
         IN random_positions' =
                [random_positions EXCEPT ![j] = BoundaryMap2(tmp1, habitat.range)]
    /\ Advance
    /\ UNCHANGED <<kernel, habitat, points_at_call, movement, steps, velocity,
                   sigma>>

\* constant_brownian.py: one iteration of the inner loop for individual j;
\* directions[k, j] = sigma * (a standard normal draw per component).
MoveIndividual_brownian ==
    /\ kernel = "brownian"
    /\ mpc = "move"
    /\ j < habitat.num
    /\ \E zx \in -MaxZ..MaxZ, zy \in -MaxZ..MaxZ :
         LET pos == random_positions[j]
             direction == <<sigma * zx, sigma * zy>>
             tmp1 == <<pos[1] + direction[1], pos[2] + direction[2]>>
         IN random_positions' =
                [random_positions EXCEPT ![j] = BoundaryMap2(tmp1, habitat.range)]
    /\ Advance
    /\ UNCHANGED <<kernel, habitat, points_at_call, movement, steps, velocity,
                   sigma>>

\* The inner loop is exhausted: next iteration of the outer loop.
NextStep ==
    /\ mpc = "move"
    /\ j >= habitat.num
    /\ k' = k + 1
    /\ mpc' = "record"
    /\ UNCHANGED <<kernel, habitat, random_positions, points_at_call, movement,
                   steps, velocity, sigma, j>>

\* return movement
ReturnMovement ==
    /\ mpc = "record"
    /\ k >= steps
    /\ mpc' = "returned"
    /\ UNCHANGED <<kernel, habitat, random_positions, points_at_call, movement,
                   steps, velocity, sigma, k, j>>

MovementNext ==
    \/ CallMovement
    \/ RecordPositions
    \/ MoveIndividual_heatmap
    \/ MoveIndividual_brownian
    \/ NextStep
    \/ ReturnMovement

\* No simulation is running.
MovementIdle ==
    /\ kernel = "heatmap"
    /\ habitat = <<>>
    /\ random_positions = <<>>
    /\ points_at_call = <<>>
    /\ movement = <<>>
    /\ steps = 0
    /\ velocity = 0
    /\ sigma = 0
    /\ k = 0
    /\ j = 0
    /\ mpc = "idle"

\* No calibrator is being constructed.
HarnessIdle ==
    /\ calibrator = "velocity"
    /\ config = <<>>
    /\ self = NoFields
    /\ pc = "idle"
    /\ pool = "none"
    /\ all_info = NoArray
    /\ arguments = <<>>
    /\ task_state = <<>>
    /\ results = <<>>
    /\ index_arguments = <<>>
    /\ cursor = 0
    /\ writes = <<>>
    /\ completed = <<>>
    /\ raised = "none"
    /\ info = NoArray

\* The boundary mapping applied to one proposed position.
BoundaryInit ==
    /\ proposed \in [pos : (-MaxCoord..MaxCoord) \X (-MaxCoord..MaxCoord),
                     range : (1..MaxMapRange) \X (1..MaxMapRange)]
    /\ mapped = <<>>

ApplyBoundary ==
    /\ mapped = <<>>
    /\ mapped' = BoundaryMap2(proposed.pos, proposed.range)
    /\ UNCHANGED proposed

BoundaryIdle ==
    /\ proposed = <<>>
    /\ mapped = <<>>

----
\* Fitting the occupancy model (OccupancyCalibrator.fit) and the density
\* conversions of core/utils.py.  An occupancy is a fraction of the grid: the
\* number n stands for the occupancy n / OccDen.  Floating-point results are
\* kept symbolically: +inf, -inf, or the logarithm of a positive ratio.

OccDen == 4
MaxSamples == 4

PosInf == [kind |-> "inf", num |-> 1, den |-> 0]

NegInf == [kind |-> "-inf", num |-> -1, den |-> 0]

\* (1 / y) - 1 for y = n / OccDen: numpy's 1 / 0.0 is inf.
OddsAgainst(n) ==
    IF n = 0 THEN PosInf ELSE [kind |-> "ratio", num |-> OccDen - n, den |-> n]

\* np.log of a non-negative value: log(inf) = inf, log(0) = -inf.
Log(r) ==
    IF r = PosInf THEN PosInf
    ELSE IF r.num = 0 THEN NegInf
    ELSE [kind |-> "log", num |-> r.num, den |-> r.den]

\* Unary minus: -log(a / b) = log(b / a).
Neg(v) ==
    IF v = PosInf THEN NegInf
    ELSE IF v = NegInf THEN PosInf
    ELSE [kind |-> "log", num |-> v.den, den |-> v.num]

\* logit(y) = -np.log((1 / y) - 1)
logit(n) == Neg(Log(OddsAgainst(n)))

\* Shapes [n_hr, n_nsz, n_nums, num_worlds, trials] of the fitted array.
FitShapes ==
    {sh \in (1..MaxAxisLen) \X (1..MaxAxisLen) \X (1..MaxAxisLen)
             \X (1..MaxWorlds) \X (1..MaxTrials) :
        sh[1] * sh[2] * sh[3] * sh[4] * sh[5] <= MaxSamples}

\* The samples in the order fit concatenates them: for i, nsz; for j, hr;
\* for k, dens; then data[j, i, k, :, :].ravel().
FitOrder(shape) ==
    LET loops == Enumerate(<<shape[2], shape[1], shape[3], shape[4], shape[5]>>)
    IN [q \in 1..Len(loops) |->
           [cell |-> <<loops[q][2], loops[q][1], loops[q][3], loops[q][4], loops[q][5]>>,
            nsz |-> loops[q][1], hr |-> loops[q][2], dens |-> loops[q][3]]]

\* Model.default_parameters['density'] of the Constant Brownian model, the
\* values in hundredths.
DefaultDensity ==
    [key \in {"alpha", "beta", "hr_exp", "den_exp_a", "den_exp_b"} |->
        CASE key = "alpha" -> 0
          [] key = "beta" -> 2200
          [] key = "hr_exp" -> 120
          [] key = "den_exp_a" -> 175
          [] key = "den_exp_b" -> 175]

\* The keys density and density_to_occupancy read, in the order they read them.
DensityKeys == <<"alpha", "beta", "hr_exp", "occ_exp_a", "occ_exp_b">>

\* parameters[key] for each key in turn: the first key that is missing raises
\* KeyError(key) and ends the call.
ReadKeys(params, keys) ==
    IF \A q \in DOMAIN keys : keys[q] \in DOMAIN params
    THEN [called |-> TRUE, raised |-> "none", key |-> ""]
    ELSE LET q0 == CHOOSE q \in DOMAIN keys :
                       /\ keys[q] \notin DOMAIN params
                       /\ \A r \in 1..(q - 1) : keys[r] \in DOMAIN params
         IN [called |-> TRUE, raised |-> "KeyError", key |-> keys[q0]]

NotCalled == [called |-> FALSE, raised |-> "none", key |-> ""]

ConversionFunctions == {"density", "density_to_occupancy"}

FitInit ==
    /\ \E shape \in FitShapes :
           data \in [shape : {shape}, data : [Cells(shape) -> 0..OccDen]]
    /\ X = <<>>
    /\ Y = <<>>
    /\ parameters = DefaultDensity
    /\ conversions = [fn \in ConversionFunctions |-> NotCalled]

\* OccupancyCalibrator.fit up to lrm.fit(X, Y): Y is the logit of every
\* sample of the array, X the covariates of its grid point.
Fit ==
    /\ Y = <<>>
    /\ LET order == FitOrder(data.shape)
       IN /\ Y' = [q \in 1..Len(order) |-> logit(data.data[order[q].cell])]
          /\ X' = [q \in 1..Len(order) |->
                      <<order[q].hr, order[q].dens, order[q].nsz>>]
    /\ UNCHANGED <<data, parameters, conversions>>

\* utils.density(occupancy, home_range, niche_size, range, parameters)
Density ==
    /\ ~conversions["density"].called
    /\ conversions' = [conversions EXCEPT !["density"] = ReadKeys(parameters, DensityKeys)]
    /\ UNCHANGED <<data, X, Y, parameters>>

\* utils.density_to_occupancy(density, home_range, niche_size, range, parameters)
DensityToOccupancy ==
    /\ ~conversions["density_to_occupancy"].called
    /\ conversions' = [conversions EXCEPT
                          !["density_to_occupancy"] = ReadKeys(parameters, DensityKeys)]
    /\ UNCHANGED <<data, X, Y, parameters>>

FitNext ==
    \/ Fit
    \/ Density
    \/ DensityToOccupancy

\* No fit or conversion is under way.
FitIdle ==
    /\ data = NoArray
    /\ X = <<>>
    /\ Y = <<>>
    /\ parameters = <<>>
    /\ conversions = <<>>

Init == HarnessInit /\ MovementIdle /\ BoundaryIdle /\ FitIdle

Next == HarnessNext /\ UNCHANGED <<mvars, bvars, fvars>>

Spec == Init /\ [][Next]_vars

MovementSpecInit == HarnessIdle /\ MovementInit /\ BoundaryIdle /\ FitIdle

MovementSpecNext == MovementNext /\ UNCHANGED <<hvars, bvars, fvars>>

MovementSpec == MovementSpecInit /\ [][MovementSpecNext]_vars

BoundarySpecInit == HarnessIdle /\ MovementIdle /\ BoundaryInit /\ FitIdle

BoundarySpecNext == ApplyBoundary /\ UNCHANGED <<hvars, mvars, fvars>>

BoundarySpec == BoundarySpecInit /\ [][BoundarySpecNext]_vars

FitSpecInit == HarnessIdle /\ MovementIdle /\ BoundaryIdle /\ FitInit

FitSpecNext == FitNext /\ UNCHANGED <<hvars, mvars, bvars>>

FitSpec == FitSpecInit /\ [][FitSpecNext]_vars

\* The orchestrating process keeps running: a raised exception reaches its
\* handler and pool.terminate() does not wait for tasks; pool.map raises
\* as soon as a task's failure is recorded.
FairSpec ==
    /\ Init
    /\ [][Next]_vars
    /\ WF_vars(HandleInterrupt /\ UNCHANGED <<mvars, bvars, fvars>>)
    /\ WF_vars(WorkerError /\ UNCHANGED <<mvars, bvars, fvars>>)

----
\* Claims about the calibration harness.

\* The grid index tuple (i, j, ..., k) of a cell: its swept-axis indices that
\* are enumerated as tasks, and its world index.
GridIndex(cal, c) ==
    CASE cal = "ollin_occupancy" -> <<c[1], c[2], c[4]>>
      [] cal = "pc_occupancy" -> <<c[1], c[2], c[3], c[4]>>
      [] OTHER -> <<c[1], c[2], c[3]>>

\* The axis values the task of grid index tuple g is submitted for.
ValuesAt(cal, s, g) ==
    IF cal = "pc_occupancy"
    THEN <<s.axis1[g[1] + 1], s.axis2[g[2] + 1], s.nums[g[3] + 1]>>
    ELSE <<s.axis1[g[1] + 1], s.axis2[g[2] + 1]>>

\* Sum of the axis indices of a grid index tuple (its world index excluded).
IndexSum(g) == SumSeq(SubSeq(g, 1, Len(g) - 1))

\* C1: whatever the order in which the tasks finish, every written cell holds
\* the result of the task that was submitted for the cell's own grid index
\* tuple: it was computed by the task whose loop iteration is that tuple, from
\* the axis values at those indices, and the stub metric there is i + j (+ l).
C1_PositionalPairing ==
    \A c \in DOMAIN writes :
        writes[c] > 0 =>
            LET g == GridIndex(calibrator, c)
                v == all_info.data[c]
            IN /\ v.by \in DOMAIN arguments
               /\ arguments[v.by].loop = g
               /\ v.arg = ValuesAt(calibrator, self, g)
               /\ v.val = IndexSum(g)

\* A 2x2 grid has been written back after its tasks finished in the reverse of
\* the submission order.
C1_Witness ==
    /\ pc = "done"
    /\ Len(self.axis1) = 2 /\ Len(self.axis2) = 2
    /\ Len(completed) = 4
    /\ \A q \in 1..4 : completed[q] = 5 - q
    /\ \A c \in DOMAIN writes : writes[c] > 0

\* The shape the caller configured: the swept axes in order, then num_worlds
\* and trials_per_world as passed to the constructor.
ConfiguredShape(cal, cfg) ==
    IF cal \in OccupancyCalibrators
    THEN <<Len(cfg.axis1), Len(cfg.axis2), Len(cfg.nums),
           cfg.num_worlds, cfg.trials_per_world>>
    ELSE <<Len(cfg.axis1), Len(cfg.axis2), cfg.num_worlds, cfg.trials_per_world>>

\* C3: the returned array has the shape (lengths of the swept axes) +
\* (num_worlds, trials_per_world) with the values the caller configured.
C3_ShapeAsConfigured ==
    pc = "done" => info.shape = ConfiguredShape(calibrator, config)

\* C4: when a run completes normally every cell of the result array has been
\* written exactly once (the slices are disjoint and cover the array), so no
\* cell keeps its zero initial value.
C4_EveryCellWrittenOnce ==
    pc = "done" =>
        /\ DOMAIN info.data = Cells(info.shape)
        /\ DOMAIN writes = Cells(info.shape)
        /\ \A c \in Cells(info.shape) : writes[c] = 1 /\ info.data[c] # Zero

\* A run with several tasks and several cells per task has completed.
C4_Witness ==
    /\ pc = "done"
    /\ Len(arguments) >= 2
    /\ Cardinality(DOMAIN info.data) >= 2 * Len(arguments)

\* C7: after an interrupt raised while the orchestrator waits, the pool has
\* been terminated and the exception that leaves the harness is the interrupt.
C7_InterruptReraised ==
    (pc = "raised" /\ raised # "WorkerError") =>
        (pool = "terminated" /\ raised = "KeyboardInterrupt")

\* C8: once a run is cancelled, control leaves the harness whether or not the
\* remaining tasks ever finish, and a cancelled run never stores or returns a
\* result array.
C8_CancelLeavesWithoutResult ==
    /\ [](pc = "except" => info = NoArray)
    /\ []((pc = "raised" /\ raised \in {"KeyboardInterrupt", "SystemExit"})
            => info = NoArray)
    /\ (pc = "except") ~> (pc = "raised" /\ info = NoArray)

\* Control has left a cancelled run while a task was still in flight.
C8_Witness ==
    /\ pc = "raised"
    /\ raised \in {"KeyboardInterrupt", "SystemExit"}
    /\ pool = "terminated"
    /\ \E p \in DOMAIN task_state : task_state[p] = "pending"
    /\ \E p \in DOMAIN task_state : task_state[p] = "done"

\* C9: once a task has raised, the run cannot complete: nothing is written
\* back, no array is returned or stored, and the harness ends by raising.
C9_WorkerFailureFailsRun ==
    /\ []((\E p \in DOMAIN task_state : task_state[p] = "failed") =>
            /\ pc \in {"waiting", "except", "raised"}
            /\ info = NoArray
            /\ \A c \in DOMAIN writes : writes[c] = 0)
    /\ [](raised = "WorkerError" => (pc = "raised" /\ info = NoArray))
    /\ (\E p \in DOMAIN task_state : task_state[p] = "failed")
          ~> (pc = "raised" /\ raised # "none" /\ info = NoArray)

\* One task raised after another had finished, and its error left the harness.
C9_Witness ==
    /\ pc = "raised"
    /\ raised = "WorkerError"
    /\ \E p \in DOMAIN task_state : task_state[p] = "failed"
    /\ \E p \in DOMAIN task_state : task_state[p] = "done"

\* A configuration with an empty swept axis or a non-positive habitat range.
Malformed(cal, cfg) ==
    \/ cfg.axis1 = <<>>
    \/ cfg.axis2 = <<>>
    \/ (cal \in OccupancyCalibrators /\ cfg.nums = <<>>)
    \/ cfg.range <= 0

\* C10: for a malformed configuration no pool is created, no task is
\* submitted and no result array is returned; the run ends with an error.
C10_MalformedRejected ==
    Malformed(calibrator, config) =>
        /\ pool = "none"
        /\ arguments = <<>>
        /\ pc # "done"
        /\ info = NoArray

----
\* Claims about the boundary mapping and the movement kernels.

\* C2: for every proposed coordinate and every positive range the boundary
\* mapping returns a coordinate c with 0 <= c < range, on each axis.
C2_MappedInRange ==
    mapped # <<>> =>
        /\ 0 <= mapped[1] /\ mapped[1] < proposed.range[1]
        /\ 0 <= mapped[2] /\ mapped[2] < proposed.range[2]

\* A position several ranges below the habitat on one axis and several ranges
\* above it on the other has been mapped.
C2_Witness ==
    /\ mapped # <<>>
    /\ proposed.pos[1] < -3 * proposed.range[1]
    /\ proposed.pos[2] > 3 * proposed.range[2]
    /\ proposed.range[1] # proposed.range[2]

\* The entries of the trajectory that the outer loop has recorded so far.
Recorded(jk) == jk[2] < k \/ (jk[2] = k /\ mpc = "move")

\* C5: the trajectory has shape [num, days * steps_per_day, 2] and every
\* position in it, for every individual and step, lies in [0, range) on both axes.
C5_TrajectoryInHabitat ==
    mpc # "idle" =>
        /\ DOMAIN movement =
              (0..(habitat.num - 1)) \X (0..(habitat.days * habitat.steps_per_day - 1))
        /\ \A jk \in DOMAIN movement :
              /\ Len(movement[jk]) = 2
              /\ InRange(movement[jk], habitat.range)

\* A two-step trajectory of two individuals, both of which moved, was returned.
C5_Witness ==
    /\ mpc = "returned"
    /\ habitat.num = 2
    /\ steps = 2
    /\ movement[<<0, 1>>] # movement[<<0, 0>>]
    /\ movement[<<1, 1>>] # movement[<<1, 0>>]

\* C6: with velocity 0 every recorded position of every individual equals its
\* initial position, in both kernels and for every habitat field.
C6_ZeroVelocityConstant ==
    (mpc # "idle" /\ habitat.velocity = 0) =>
        /\ random_positions = points_at_call
        /\ \A jk \in DOMAIN movement :
              Recorded(jk) => movement[jk] = points_at_call[jk[1]]

\* A two-step zero-velocity trajectory was returned for individuals that
\* start away from the origin, in a habitat whose field is not uniform.
C6_Witness ==
    /\ mpc = "returned"
    /\ habitat.velocity = 0
    /\ habitat.field = "peak"
    /\ habitat.num = 2
    /\ steps = 2
    /\ habitat.resolution = 1
    /\ points_at_call[0] = <<1, 1>>
    /\ points_at_call[1] = <<0, 0>>

\* C12: a proposed coordinate x that leaves the habitat by less than one
\* range is mapped to its billiard reflection: 2*range - x when
\* range < x < 2*range, and -x when -range < x < 0.  A coordinate exactly on
\* the upper edge, x = range, is mapped to 0.
C12_ReflectsOffEdges ==
    mapped # <<>> =>
        \A a \in {1, 2} :
            LET x == proposed.pos[a]
                range_ == proposed.range[a]
            IN /\ (range_ < x /\ x < 2 * range_) => mapped[a] = 2 * range_ - x
               /\ (-range_ < x /\ x < 0) => mapped[a] = -x
               /\ (x = range_) => mapped[a] = 0

\* One axis has overshot the upper edge of a habitat of range 3 by one unit
\* and the other has undershot the lower edge by two units.
C12_Witness ==
    /\ mapped # <<>>
    /\ proposed.range = <<3, 3>>
    /\ proposed.pos = <<4, -2>>
    /\ mapped = <<2, 2>>

\* C12 as stated: the reflection 2*range - x holds on the whole interval
\* range <= x < 2*range, the upper edge x = range included.
C12_ReflectsIncludingEdge ==
    mapped # <<>> =>
        \A a \in {1, 2} :
            LET x == proposed.pos[a]
                range_ == proposed.range[a]
            IN /\ (range_ <= x /\ x < 2 * range_) => mapped[a] = 2 * range_ - x
               /\ (-range_ < x /\ x < 0) => mapped[a] = -x

----
\* Further claims about the calibration harness.

C15_WritesAfterPool ==
    [][(all_info # NoArray /\ all_info'.data # all_info.data) =>
          /\ pc = "writing"
          /\ pool = "joined"
          /\ \A p \in DOMAIN task_state : task_state[p] = "done"
          /\ task_state' = task_state
          /\ results' = results]_vars

\* The write-back loop is half way through a run of several tasks.
C15_Witness ==
    /\ pc = "writing"
    /\ Len(arguments) >= 2
    /\ cursor = 2
    /\ \E c \in DOMAIN writes : writes[c] = 1
    /\ \E c \in DOMAIN writes : writes[c] = 0

RECURSIVE ProdSeq(_)
ProdSeq(s) == IF s = <<>> THEN 1 ELSE Head(s) * ProdSeq(Tail(s))

\* The lengths of the axes of the result array that are enumerated as tasks:
\* every swept axis and the world axis, except that the ollin
\* OccupancyCalibrator leaves the population-size axis to the task.
TaskGrid(cal, shape) ==
    CASE cal = "ollin_occupancy" -> <<shape[1], shape[2], shape[4]>>
      [] cal = "pc_occupancy" -> <<shape[1], shape[2], shape[3], shape[4]>>
      [] OTHER -> <<shape[1], shape[2], shape[3]>>

\* C16: the harness submits exactly one task per combination of the axes it
\* enumerates as tasks and the world index: the number of tasks is the product
\* of the lengths of those axes of the result array times its number of worlds,
\* every task's combination lies in the grid and no two tasks share one.  In
\* the ollin OccupancyCalibrator the population-size axis is not enumerated.
C16_OneTaskPerCombination ==
    pc \notin {"idle", "init", "constructed"} =>
        LET grid == TaskGrid(calibrator, all_info.shape)
        IN /\ Len(arguments) = ProdSeq(grid)
           /\ \A p \in DOMAIN arguments :
                  /\ Len(arguments[p].loop) = Len(grid)
                  /\ \A a \in DOMAIN grid :
                         arguments[p].loop[a] \in 0..(grid[a] - 1)
           /\ \A p, q \in DOMAIN arguments :
                  arguments[p].loop = arguments[q].loop => p = q

\* Four tasks have been submitted for a 2 x 1 grid in 2 worlds.
C16_Witness ==
    /\ pc = "waiting"
    /\ calibrator = "velocity"
    /\ Len(self.axis1) = 2 /\ Len(self.axis2) = 1 /\ self.num_worlds = 2
    /\ Len(arguments) = 4

\* C16 as stated, for a well-formed configuration: the number of tasks is the
\* product of the lengths of every swept axis of the result array times the
\* number of worlds.
C16_TasksOverAllSweptAxes ==
    (pc \notin {"idle", "init", "constructed"} /\ ~Malformed(calibrator, config)) =>
        /\ Len(arguments) =
               ProdSeq(SubSeq(all_info.shape, 1, Len(all_info.shape) - 1))
        /\ \A p, q \in DOMAIN arguments :
               arguments[p].loop = arguments[q].loop => p = q

\* C19: whenever calculate_* has been left, by return or by an exception, the
\* pool has been shut down (closed and joined, or terminated).
C19_PoolShutDownOnExit ==
    pc \in {"done", "raised"} => pool \in {"joined", "terminated"}

\* Position of the world index in a cell's index tuple.
WorldAxis(cal) == IF cal \in OccupancyCalibrators THEN 4 ELSE 3

\* C20: the argument a task receives does not depend on the world index:
\* two tasks whose combinations differ only in the world index receive equal
\* arguments, and two written cells that differ only in the world index hold
\* results computed from equal arguments, with equal values of the
\* (deterministic) stub metric.
C20_ArgumentIgnoresWorld ==
    pc \notin {"idle", "init", "constructed"} =>
        /\ \A p, q \in DOMAIN arguments :
               LET lp == arguments[p].loop
                   lq == arguments[q].loop
               IN SubSeq(lp, 1, Len(lp) - 1) = SubSeq(lq, 1, Len(lq) - 1) =>
                      /\ arguments[p].arg = arguments[q].arg
                      /\ arguments[p].trials = arguments[q].trials
                      /\ arguments[p].range = arguments[q].range
        /\ \A c, d \in DOMAIN writes :
               (/\ writes[c] > 0 /\ writes[d] > 0
                /\ [c EXCEPT ![WorldAxis(calibrator)] = d[WorldAxis(calibrator)]] = d) =>
                   /\ all_info.data[c].arg = all_info.data[d].arg
                   /\ all_info.data[c].val = all_info.data[d].val

\* A grid with two worlds has been written back: the cells of both worlds of
\* one grid point are filled by different tasks.
C20_Witness ==
    /\ pc = "done"
    /\ self.num_worlds = 2
    /\ \E c, d \in DOMAIN writes :
           /\ c # d
           /\ [c EXCEPT ![WorldAxis(calibrator)] = d[WorldAxis(calibrator)]] = d
           /\ all_info.data[c].by # 0
           /\ all_info.data[d].by # 0
           /\ all_info.data[c].by # all_info.data[d].by

----
\* Further claims about the movement kernels.

\* C14: a simulation leaves the habitat's initial points as they were when it
\* was called.
C14_InitialPointsUnchanged ==
    mpc = "returned" => random_positions = points_at_call

\* C17: in the constant-brownian kernel the standard deviation of each
\* displacement component is the per-step velocity divided by
\* 1.2533 (= sqrt(pi/2)), i.e. about 0.7979 = sqrt(2/pi) times the per-step
\* velocity (rounded down to the lattice), and so never exceeds it.
C17_SigmaIsVelocityOverRootHalfPi ==
    (kernel = "brownian" /\ mpc # "idle") =>
        /\ sigma * 12533 <= velocity * 10000
        /\ velocity * 10000 < (sigma + 1) * 12533
        /\ sigma <= velocity

\* A constant-brownian simulation with a positive per-step velocity has moved
\* an individual.
C17_Witness ==
    /\ kernel = "brownian"
    /\ mpc = "returned"
    /\ velocity = 4
    /\ sigma = 3
    /\ random_positions # points_at_call

\* C17 as stated: the standard deviation is the per-step velocity divided by
\* c = 0.7979 (= sqrt(2/pi)), i.e. about 1.2533 times the per-step velocity
\* (rounded down to the lattice).
C17_SigmaIsVelocityOverC ==
    (kernel = "brownian" /\ mpc # "idle") =>
        /\ sigma * 7979 <= velocity * 10000
        /\ velocity * 10000 < (sigma + 1) * 7979

----
\* Claims about the fit and the density conversions.

\* C11: the regression target that fit hands to the linear model contains no
\* infinite entry: a sample with occupancy exactly 0 or 1 is excluded from
\* the target or clamped to a finite logit.
C11_TargetFinite ==
    \A q \in DOMAIN Y : Y[q].kind = "log"

\* C18: every density coefficient the conversions read is present in the
\* Constant Brownian model's default density bundle: a conversion applied to
\* that bundle raises no KeyError.
C18_NoMissingKey ==
    \A fn \in DOMAIN conversions :
        conversions[fn].called =>
            /\ \A q \in DOMAIN DensityKeys : DensityKeys[q] \in DOMAIN parameters
            /\ conversions[fn].raised = "none"

====
